---- MODULE Spec2Model ----
(***************************************************************************)
(* SpeakEasy backend: the content-addressed analysis cache (app.py,        *)
(* analyze_pdf), the summarize endpoint (app.py,                           *)
(* summarize_document_sections) and the resumable summarization job        *)
(* (rag_handler.py, DocumentRAG.generate_section_summaries).               *)
(***************************************************************************)
EXTENDS Integers, Sequences, FiniteSets, TLC

(***************************************************************************)
(* Bounds of the model.                                                    *)
(***************************************************************************)
\* segments of the large flat-list document
NumSegments == 12
\* summarize requests issued in one behaviour
MaxRuns == 2
\* times the generation collaborator switches behaviour in one behaviour
MaxGenChanges == 1
\* process crashes in one behaviour
MaxCrashes == 1
\* file writes that fail in one behaviour
MaxWriteFailures == 1
\* analyze requests issued in one behaviour
MaxAnalyzeRequests == 4
\* process restarts in one behaviour of the analyze endpoint
MaxRestarts == 1
\* segments of the document of scenario B
ScenarioSegments == 25
\* chat requests of a run of the model
MaxChatRequests == 2

(***************************************************************************)
(* Program constants.                                                      *)
(***************************************************************************)
\* rag_handler.py:298  max_retries = 5
max_retries == 5
\* rag_handler.py:319  if batch_count >= 10
CheckpointInterval == 10
\* rag_handler.py:208  if len(text_content) > 10
MinTextLen == 10
\* rag_handler.py:360  error_msg[:100]
ErrorPreviewLen == 100

Absent == "<absent>"

(***************************************************************************)
(* Strings: str.strip(), str.lower(), the `in` substring test.             *)
(***************************************************************************)
RECURSIVE LStrip(_)
LStrip(s) ==
    IF Len(s) > 0 /\ SubSeq(s, 1, 1) = " " THEN LStrip(SubSeq(s, 2, Len(s))) ELSE s

RECURSIVE RStrip(_)
RStrip(s) ==
    IF Len(s) > 0 /\ SubSeq(s, Len(s), Len(s)) = " "
    THEN RStrip(SubSeq(s, 1, Len(s) - 1)) ELSE s

Strip(s) == RStrip(LStrip(s))

UpperCase == <<"A","B","C","D","E","F","G","H","I","J","K","L","M",
               "N","O","P","Q","R","S","T","U","V","W","X","Y","Z">>
LowerCase == <<"a","b","c","d","e","f","g","h","i","j","k","l","m",
               "n","o","p","q","r","s","t","u","v","w","x","y","z">>

LowerChar(c) ==
    IF \E k \in 1..26 : UpperCase[k] = c
    THEN LowerCase[CHOOSE k \in 1..26 : UpperCase[k] = c]
    ELSE c

RECURSIVE Lower(_)
Lower(s) ==
    IF Len(s) = 0 THEN s
    ELSE LowerChar(SubSeq(s, 1, 1)) \o Lower(SubSeq(s, 2, Len(s)))

\* Python: sub in s
Contains(s, sub) ==
    \E i \in 1..(Len(s) - Len(sub) + 1) : SubSeq(s, i, i + Len(sub) - 1) = sub

\* Python: s[:n]
Prefix(s, n) == IF Len(s) <= n THEN s ELSE SubSeq(s, 1, n)

(***************************************************************************)
(* Analysis JSON documents (the content of huridocs_output/<hash>.json).   *)
(* A JSON object is a record; a key the object lacks holds Absent.         *)
(***************************************************************************)
Letters == "abcdefghijklmnopqrstuvwxyz"
Body(n) == SubSeq(Letters, 1, n)

Item(id, text, content, type, page_number, bbox) ==
    [id |-> id, text |-> text, content |-> content, type |-> type,
     page_number |-> page_number, bbox |-> bbox]

TextItem(id, text, bbox) == Item(id, text, Absent, Absent, 0, bbox)
ContentItem(id, type, content, bbox) == Item(id, Absent, content, type, 0, bbox)

Page(kind, blocks) == [kind |-> kind, blocks |-> blocks]

\* a flat list of n items without ids, every text long enough
FlatList(n) ==
    [shape |-> "list", pages |-> << >>, dump |-> "",
     items |-> [i \in 1..n |->
                 Item(Absent, " " \o Body(11 + (i % 3)) \o " ", Absent, "Text", 1 + (i \div 5), i)]]
BigList == FlatList(NumSegments)
\* the document of scenario B
ScenarioDoc == FlatList(ScenarioSegments)

\* a flat list: a source id, a text of trimmed length 10, a fallback id, no text
SmallList ==
    [shape |-> "list", pages |-> << >>, dump |-> "",
     items |-> << Item("intro", Body(14), Absent, "Title", 1, 1),
                  Item(Absent, "  " \o Body(10) \o "  ", Absent, "Text", 1, 2),
                  Item(Absent, Body(11), Absent, "Text", 2, 3),
                  Item(Absent, Absent, Absent, "Picture", 2, 4) >>]

\* pages[] with texts[]: blocks without ids get an id()-based segment id
PagesTexts ==
    [shape |-> "pages", items |-> << >>, dump |-> "",
     pages |-> << Page("texts", << TextItem(Absent, Body(12), 1),
                                   TextItem("t2", " " \o Body(13), 2) >>),
                  Page("texts", << TextItem(Absent, Body(15), 3) >>) >>]

\* pages[] with items[]: only type == 'text' items, text under 'content'
PagesItems ==
    [shape |-> "pages", items |-> << >>, dump |-> "",
     pages |-> << Page("items", << ContentItem(Absent, "text", Body(12), 1),
                                   ContentItem(Absent, "image", Absent, 2) >>),
                  Page("items", << ContentItem("i3", "text", Body(20) \o " ", 3),
                                   ContentItem(Absent, "text", Body(17), 4) >>) >>]

\* a dict without 'pages': summarized as one 'full_doc' segment
PlainDict ==
    [shape |-> "dict", items |-> << >>, pages |-> << >>,
     dump |-> "{\"title\": \"report\"}"]

Docs == {SmallList, PagesTexts, PagesItems, PlainDict}

(***************************************************************************)
(* Segment extraction (generate_section_summaries, lines 191-249).         *)
(* text_segments is an insertion-ordered dict: a sequence of segments with *)
(* distinct ids.                                                           *)
(***************************************************************************)
Segment(id, text, page, bbox) == [id |-> id, text |-> text, page |-> page, bbox |-> bbox]

\* text_segments[segment_id] = {...}
DictPut(d, e) ==
    IF \E k \in 1..Len(d) : d[k].id = e.id
    THEN [k \in 1..Len(d) |-> IF d[k].id = e.id THEN e ELSE d[k]]
    ELSE Append(d, e)

\* id(obj): the address of the ordinal-th block of the loaded JSON; it
\* depends on the heap layout of the json.load that built the object
HeapLayouts == {0, 1}
ObjectId(heap, ordinal) == heap + ordinal

\* the minimum-length filter
Meaningful(text_content) == Len(text_content) > MinTextLen

\* the flat-list shape; i is the enumerate() index of the next item
RECURSIVE ListSegments(_, _, _)
ListSegments(items, i, acc) ==
    IF i >= Len(items) THEN acc
    ELSE LET segment == items[i + 1]
             segment_id == IF segment.id # Absent THEN segment.id
                           ELSE "seg_" \o ToString(i)
             text_content == Strip(segment.text)
             page_num == IF segment.page_number # 0 THEN segment.page_number ELSE 1
         IN  ListSegments(items, i + 1,
                 IF segment.text # Absent /\ Meaningful(text_content)
                 THEN DictPut(acc, Segment(segment_id, text_content, page_num, segment.bbox))
                 ELSE acc)

RECURSIVE BlocksBefore(_, _)
BlocksBefore(pages, p) ==
    IF p <= 1 THEN 0 ELSE Len(pages[p - 1].blocks) + BlocksBefore(pages, p - 1)

\* the id of a block of a page: the source id, else one built from id(block)
BlockId(prefix, blk, page_number, addr) ==
    IF blk.id # Absent THEN blk.id
    ELSE prefix \o ToString(page_number) \o "_" \o ToString(addr)

\* the pages[] shape; p, b: the next page and block (1-based)
RECURSIVE PageSegments(_, _, _, _, _)
PageSegments(pages, p, b, heap, acc) ==
    IF p > Len(pages) THEN acc
    ELSE IF b > Len(pages[p].blocks) THEN PageSegments(pages, p + 1, 1, heap, acc)
    ELSE LET page == pages[p]
             blk == page.blocks[b]
             page_number == p
             addr == ObjectId(heap, BlocksBefore(pages, p) + b)
             selected == IF page.kind = "texts" THEN blk.text # Absent
                         ELSE IF page.kind = "items" THEN blk.type = "text"
                         ELSE FALSE
             segment_id == BlockId(IF page.kind = "texts" THEN "text_" ELSE "item_",
                                   blk, page_number, addr)
             text_content == IF page.kind = "texts" THEN Strip(blk.text)
                             ELSE Strip(IF blk.content = Absent THEN "" ELSE blk.content)
         IN  PageSegments(pages, p, b + 1, heap,
                 IF selected /\ Meaningful(text_content)
                 THEN DictPut(acc, Segment(segment_id, text_content, page_number, blk.bbox))
                 ELSE acc)

\* text_segments after the shape probing of lines 196-249
ExtractSegments(data, heap) ==
    IF data.shape = "list" THEN ListSegments(data.items, 0, << >>)
    ELSE IF data.shape = "pages" THEN PageSegments(data.pages, 1, 1, heap, << >>)
    ELSE << >>

\* the 'full_doc' segment of lines 256-263
FullDocSegment(data) == Segment("full_doc", Prefix(data.dump, 1000), 1, 0)

(***************************************************************************)
(* The segment count of the summarize endpoint (app.py, lines 231-242).    *)
(***************************************************************************)
RECURSIVE CountTextItems(_)
CountTextItems(blocks) ==
    IF Len(blocks) = 0 THEN 0
    ELSE (IF Head(blocks).type = "text" THEN 1 ELSE 0) + CountTextItems(Tail(blocks))

RECURSIVE CountPages(_)
CountPages(pages) ==
    IF Len(pages) = 0 THEN 0
    ELSE (IF Head(pages).kind = "texts" THEN Len(Head(pages).blocks)
          ELSE IF Head(pages).kind = "items" THEN CountTextItems(Head(pages).blocks)
          ELSE 0) + CountPages(Tail(pages))

TotalSegments(data) ==
    IF data.shape = "list" THEN Len(data.items)
    ELSE IF data.shape = "pages" THEN CountPages(data.pages)
    ELSE 0

(***************************************************************************)
(* extract_retry_delay (rag_handler.py, lines 25-46).                      *)
(***************************************************************************)
\* rag_handler.py:416  similarity_search(query_text, k=4)
TopK == 4
\* rag_handler.py:369  time.sleep(1)
InterSegmentDelay == 1
\* rag_handler.py:43  return 30
DefaultRetryDelay == 30

Digits == <<"0","1","2","3","4","5","6","7","8","9">>
IsDigit(c) == \E k \in 1..10 : Digits[k] = c
DigitVal(c) == (CHOOSE k \in 1..10 : Digits[k] = c) - 1

StartsWithAt(s, i, p) == i + Len(p) - 1 <= Len(s) /\ SubSeq(s, i, i + Len(p) - 1) = p

\* the length of the run of digits of s that starts at i: what \d+ takes
RECURSIVE DigitRun(_, _)
DigitRun(s, i) ==
    IF i <= Len(s) /\ IsDigit(SubSeq(s, i, i)) THEN 1 + DigitRun(s, i + 1) ELSE 0

\* variant: only the first digit is read
ParseFirstDigit(s) == DigitVal(SubSeq(s, 1, 1))
\* int(group(1))
RECURSIVE ParseInt(_)
ParseInt(s) ==
    IF Len(s) = 0 THEN 0
    ELSE 10 * ParseInt(SubSeq(s, 1, Len(s) - 1)) + DigitVal(SubSeq(s, Len(s), Len(s)))

RetryPrefixes == {"retry after", "wait", "retry in"}

\* (?:retry after|wait|retry in) (\d+)(?:<unit>) matches s at i
PatternAt(s, i, units) ==
    \E p \in RetryPrefixes :
        /\ StartsWithAt(s, i, p \o " ")
        /\ LET j == i + Len(p) + 1
               n == DigitRun(s, j)
           IN  n >= 1 /\ \E u \in units : StartsWithAt(s, j + n, u)

\* pattern.search(s): the leftmost match, as <<found, int(group(1))>>
PatternSearch(s, units) ==
    IF \E i \in 1..Len(s) : PatternAt(s, i, units)
    THEN LET i == CHOOSE k \in 1..Len(s) :
                      PatternAt(s, k, units) /\ \A m \in 1..(k - 1) : ~PatternAt(s, m, units)
             p == CHOOSE q \in RetryPrefixes : StartsWithAt(s, i, q \o " ")
             j == i + Len(p) + 1
         IN  <<TRUE, ParseInt(SubSeq(s, j, j + DigitRun(s, j) - 1))>>
    ELSE <<FALSE, 0>>

\* variant: the delay named in the message is ignored
DefaultDelayOnly(error_message) == DefaultRetryDelay
extract_retry_delay(error_message) ==
    LET msg == Lower(error_message)
        seconds_match == PatternSearch(msg, {"s", " seconds"})
        minutes_match == PatternSearch(msg, {"m", " minutes"})
    IN  IF seconds_match[1] THEN seconds_match[2]
        ELSE IF minutes_match[1] THEN minutes_match[2] * 60
        ELSE DefaultRetryDelay

(***************************************************************************)
(* The generation collaborator: it answers, or raises an error whose text  *)
(* is one of ErrorMessages.                                                *)
(***************************************************************************)
ErrorMessages == {"429 Rate limit exceeded, please retry after 5 seconds",
                  "Connection reset by peer"}
GenModes == {"ok"} \cup ErrorMessages

\* rag_handler.py:331
IsRateLimitError(error_msg) ==
    \/ Contains(Lower(error_msg), "rate limit")
    \/ Contains(Lower(error_msg), "quota")
    \/ Contains(Lower(error_msg), "limit exceeded")

\* rag_handler.py:348
RateLimitMarker == "Rate limit error after " \o ToString(max_retries) \o " retries."
\* rag_handler.py:360
ErrorMarker(error_msg) ==
    "Error generating summary: " \o Prefix(error_msg, ErrorPreviewLen) \o "..."
\* what the job derives from the text of each error, computed once
RateLimitClassified == [m \in ErrorMessages |-> IsRateLimitError(m)]
RetryDelayOf == [m \in ErrorMessages |-> extract_retry_delay(m)]
ErrorMarkerOf == [m \in ErrorMessages |-> ErrorMarker(m)]

\* the text the collaborator returns in the run-th job
GeneratedSummary(run) == "Summary written in run " \o ToString(run)

(***************************************************************************)
(* State.                                                                  *)
(***************************************************************************)
VARIABLES
    huridocs_file,       \* huridocs_output/<hash>.json: [st, data], st absent | ok | corrupt
    analysis_cache,      \* analysis_cache[<hash>]: [set, data]
    areq,                \* per request thread: the locals of analyze_pdf
    aresponse,           \* per request thread: the last response of analyze_pdf
    ext_calls,           \* requests.post calls to the layout-analysis service so far
    served,              \* the JSON of the first 200 of analyze_pdf since the last start
    first_served,        \* the JSON of the first 200 of analyze_pdf ever
    calls_after_served,  \* ext_calls made since then
    analyze_requests,    \* analyze requests received so far
    restarts,            \* restarts of the process so far
    summary_file,        \* <hash>_summaries.json: [st, map], st absent | ok | corrupt
    total_segments_file, \* <hash>_total_segments.txt: [exists, value]
    vector_stores,       \* the document's path is a key of rag_handler.vector_stores
    gen_mode,            \* the generation collaborator: "ok" or the error it raises
    job,                 \* per request thread: the locals of the handler and the job
    response,            \* per request thread: the last HTTP response
    runs,                \* summarize requests served so far
    gen_changes,         \* changes of gen_mode so far
    crashes,             \* process crashes so far
    write_failures,      \* failed checkpoint writes so far
    last_ids,            \* ids of the latest extraction, in order
    prev_ids,            \* ids of the extraction before it
    rag_handler,         \* app.rag_handler is a DocumentRAG (TRUE) or None (FALSE)
    chat,                \* per request thread: the locals of a request that uses the index
    chat_requests,       \* chat requests received so far
    index_builds,        \* vector stores put in rag_handler.vector_stores since the start
    storage_dir,         \* main.py: ./llama_index_storage holds a persisted index, or not
    app_state,           \* main.py: app.state of the standalone RAG API
    api                  \* main.py: the last response and the request counters

standaloneVars == <<storage_dir, app_state, api>>

analyzeVars == <<analysis_cache, areq, aresponse, ext_calls, served, first_served,
                 calls_after_served,
                 analyze_requests, restarts>>

\* the analysis JSON the summarize endpoint and the job read
doc == huridocs_file.data

queryVars == <<rag_handler, chat, chat_requests>>

vars == <<standaloneVars, analyzeVars, queryVars, index_builds, huridocs_file, summary_file, total_segments_file, vector_stores, gen_mode, job,
          response, runs, gen_changes, crashes, write_failures, last_ids, prev_ids>>

Workers == {1, 2}

\* a map segment_id -> {summary, text, page, bbox}: a set of entries with distinct ids
Keys(map) == {e.id : e \in map}
Entry(seg, summary) ==
    [id |-> seg.id, summary |-> summary, text |-> seg.text, page |-> seg.page,
     bbox |-> seg.bbox]
\* summaries[segment_id] = {...}
MapPut(map, e) == {x \in map : x.id # e.id} \cup {e}
Get(map, id) == CHOOSE e \in map : e.id = id

NoFile == [st |-> "absent", map |-> {}]
NoIds == [set |-> FALSE, ids |-> << >>]
NoResponse == [code |-> 0, status |-> "none", is_partial |-> FALSE, count |-> 0]
NoAnalysis == [set |-> FALSE, data |-> PlainDict]
\* disk, stored: what the request found in the file cache and whether its
\* own write of the file succeeded (history, for the properties)
IdleAnalyze == [pc |-> "idle", analysis_result |-> PlainDict, disk |-> "none",
                stored |-> FALSE]
NoAnalyzeResponse == [code |-> 0, data |-> PlainDict, source |-> "none"]

IdleJob ==
    [pc |-> "idle", existing_summaries |-> {}, text_segments |-> << >>, to_process |-> << >>,
     summaries |-> {}, pos |-> 0, retry_count |-> 0, processed_count |-> 0,
     batch_count |-> 0, segments_total |-> 0,
     \* history of the run, for the properties
     run |-> 0, attempts |-> 0, outcome |-> "none", called |-> {},
     offered |-> [set |-> FALSE, map |-> {}], saved_ok |-> FALSE,
     ok_since_periodic |-> 0, last_periodic |-> [set |-> FALSE, count |-> 0],
     delay |-> 0, slept |-> 0, last_error |-> "",
     \* the seconds slept between the segment before and the current one
     paused |-> 0]

IdleChat ==
    [pc |-> "idle", kind |-> "none", run |-> 0, retrieved |-> 0, code |-> 0, answer |-> "",
     sources |-> 0, error |-> FALSE,
     \* history of the request, for the properties
     searched |-> FALSE, gen_calls |-> 0,
     \* a summarize request: its flags and the branch that served it
     return_partial |-> FALSE, resume_generation |-> FALSE, branch |-> "none",
     \* a chat request: whether its body carried a query
     has_query |-> FALSE]

\* no request that uses the index in progress
QueryAtRest ==
    /\ chat = [w \in Workers |-> IdleChat]
    /\ chat_requests = 0

\* the analyze endpoint at rest, nothing cached in memory
AnalyzeAtRest ==
    /\ analysis_cache = NoAnalysis
    /\ areq = [w \in Workers |-> IdleAnalyze]
    /\ aresponse = [w \in Workers |-> NoAnalyzeResponse]
    /\ ext_calls = 0
    /\ served = NoAnalysis
    /\ first_served = NoAnalysis
    /\ calls_after_served = 0
    /\ analyze_requests = 0
    /\ restarts = 0

\* the summarize endpoint at rest, no summaries on disk
SummarizeAtRest ==
    /\ summary_file = NoFile
    /\ total_segments_file = [exists |-> FALSE, value |-> 0]
    /\ vector_stores = FALSE
    /\ index_builds = 0
    /\ job = [w \in Workers |-> IdleJob]
    /\ response = [w \in Workers |-> NoResponse]
    /\ runs = 0
    /\ gen_changes = 0
    /\ crashes = 0
    /\ last_ids = NoIds
    /\ prev_ids = NoIds

(***************************************************************************)
(* main.py: the standalone RAG API, a process of its own.                  *)
(***************************************************************************)
\* what ./llama_index_storage can hold when the process starts
StoredIndexes == {"index_a", "index_b"}

\* main.py 43-51: the persisted index, or None when loading raises
load_or_create_index(storage) ==
    IF storage \in StoredIndexes THEN storage ELSE "None"

\* main.py 54: the attribute is assigned at import, whatever was loaded
Startup(storage) == [has_index |-> TRUE, index |-> load_or_create_index(storage)]

NoApiCall ==
    [endpoint |-> "none", items |-> 0, code |-> 0, detail |-> "", index_seen |-> "None",
     requests |-> 0, restarts |-> 0]

\* the standalone API is not part of the behaviours of the main application
StandaloneAtRest ==
    /\ storage_dir = "absent"
    /\ app_state = Startup("absent")
    /\ api = NoApiCall

\* an analysed document is on disk; no summaries yet
JobInit ==
    /\ \E data \in Docs : huridocs_file = [st |-> "ok", data |-> data]
    /\ gen_mode \in GenModes
    /\ write_failures = 0
    /\ StandaloneAtRest
    /\ SummarizeAtRest
    /\ AnalyzeAtRest
    /\ QueryAtRest
    /\ rag_handler = TRUE

(***************************************************************************)
(* save_intermediate_results (rag_handler.py, lines 289-295): open(..,'w') *)
(* truncates the file and json.dump writes it; an exception is swallowed.  *)
(* wr: "written", "open_failed" (the file is untouched) or "partial" (the  *)
(* file is left truncated, when the dump fails or the process dies in it). *)
(***************************************************************************)
WriteOutcomes == {"written", "open_failed", "partial"}

\* variant: the write keeps the entries the file holds
SaveMerged(file, summaries, wr) ==
    [st |-> "ok", map |-> summaries \cup {e \in file.map : e.id \notin Keys(summaries)}]
save_intermediate_results(file, summaries, wr) ==
    IF wr = "written" THEN [st |-> "ok", map |-> summaries]
    ELSE IF wr = "partial" THEN [st |-> "corrupt", map |-> {}]
    ELSE file

\* json.load of the summaries file by the job (lines 179-185)
LoadExisting(file) == IF file.st = "ok" THEN file.map ELSE {}

(***************************************************************************)
(* generate_section_summaries: the start (lines 175-269).                  *)
(***************************************************************************)
\* variant: every extracted segment is processed again
ToProcessAll(text_segments, summaries) == text_segments
\* line 252
ToProcess(text_segments, summaries) ==
    SelectSeq(text_segments, LAMBDA seg : seg.id \notin Keys(summaries))

\* text_segments and to_process after lines 191-264
Extraction(data, heap, summaries) ==
    LET segs == ExtractSegments(data, heap)
    IN  IF Len(segs) = 0 /\ data.shape # "list" /\ summaries = {}
        THEN [text_segments |-> <<FullDocSegment(data)>>,
              to_process |-> <<FullDocSegment(data)>>]
        ELSE [text_segments |-> segs, to_process |-> ToProcess(segs, summaries)]

IdsOf(text_segments) == [k \in 1..Len(text_segments) |-> text_segments[k].id]

(***************************************************************************)
(* The retry loop of one segment (lines 297-369).                          *)
(***************************************************************************)
\* variant: one iteration too many
LoopGuardInclusive(retry_count) == retry_count <= max_retries
\* line 302: while retry_count < max_retries
LoopGuard(retry_count) == retry_count < max_retries
\* line 334: if retry_count < max_retries
RetryAllowed(retry_count) == retry_count < max_retries
\* variant: the periodic save comes one call late
PeriodicDueLate(batch_count) == batch_count > CheckpointInterval
\* line 319: if batch_count >= 10
PeriodicDue(batch_count) == batch_count >= CheckpointInterval

\* line 368: if processed_count < segments_total
InterSegmentDelayDue(processed_count, segments_total) == processed_count < segments_total

CurrentSegment(j) == j.to_process[j.pos]

\* lines 304-305
CountAttempt(j) ==
    [j EXCEPT !.processed_count = @ + 1, !.batch_count = @ + 1,
              !.attempts = @ + 1,
              !.called = @ \cup {CurrentSegment(j).bbox}]

\* variant: the summary the call returned is not stored
OnSuccessNoEntry(j) == <<[j EXCEPT !.outcome = "ok", !.pc = "next"], FALSE>>
\* lines 308-324: the call returned; <<job, a save is made>>
OnSuccess(j) ==
    LET seg == CurrentSegment(j)
        j1 == [j EXCEPT !.summaries = MapPut(@, Entry(seg, GeneratedSummary(j.run))),
                        !.outcome = "ok",
                        !.ok_since_periodic = @ + 1,
                        !.pc = "next"]
    IN  IF PeriodicDue(j1.batch_count)
        THEN <<[j1 EXCEPT !.batch_count = 0,
                          !.last_periodic = [set |-> TRUE, count |-> j1.ok_since_periodic],
                          !.ok_since_periodic = 0], TRUE>>
        ELSE <<j1, FALSE>>

\* variant: the backoff sleep is entered without saving progress first
OnRateLimitNoSave(j, error_msg) ==
    LET seg == j.to_process[j.pos]
        j1 == [j EXCEPT !.retry_count = @ + 1, !.outcome = "rate_limit",
                        !.last_error = error_msg]
    IN  IF RetryAllowed(j1.retry_count)
        THEN <<[j1 EXCEPT !.delay = RetryDelayOf[error_msg],
                          !.pc = "sleeping"], FALSE>>
        ELSE <<[j1 EXCEPT !.summaries = MapPut(@, Entry(seg, RateLimitMarker)),
                          !.batch_count = 0,
                          !.pc = IF LoopGuard(j1.retry_count) THEN "attempt" ELSE "next"],
               TRUE>>

\* lines 331-356: a rate-limit-classified error
OnRateLimit(j, error_msg) ==
    LET seg == CurrentSegment(j)
        j1 == [j EXCEPT !.retry_count = @ + 1, !.outcome = "rate_limit",
                        !.last_error = error_msg]
    IN  IF RetryAllowed(j1.retry_count)
        THEN <<[j1 EXCEPT !.delay = RetryDelayOf[error_msg],
                          !.pc = "sleeping"], TRUE>>
        ELSE <<[j1 EXCEPT !.summaries = MapPut(@, Entry(seg, RateLimitMarker)),
                          !.batch_count = 0,
                          !.pc = IF LoopGuard(j1.retry_count) THEN "attempt" ELSE "next"],
               TRUE>>

\* variant: the marker is recorded but the retry loop is not left
OnOtherErrorNoBreak(j, error_msg) ==
    LET seg == j.to_process[j.pos]
    IN  <<[j EXCEPT !.summaries = MapPut(@, Entry(seg, ErrorMarkerOf[error_msg])),
                    !.outcome = "error",
                    !.last_error = error_msg,
                    !.pc = "attempt"], FALSE>>

\* lines 357-365: any other error
OnOtherError(j, error_msg) ==
    LET seg == CurrentSegment(j)
    IN  <<[j EXCEPT !.summaries = MapPut(@, Entry(seg, ErrorMarkerOf[error_msg])),
                    !.outcome = "error",
                    !.last_error = error_msg,
                    !.pc = "next"], FALSE>>

\* one iteration of the while loop: the call and the handling of its outcome
Iteration(j, mode) ==
    LET j1 == CountAttempt(j)
    IN  IF mode = "ok" THEN OnSuccess(j1)
        ELSE IF RateLimitClassified[mode] THEN OnRateLimit(j1, mode)
        ELSE OnOtherError(j1, mode)

(***************************************************************************)
(* The summarize endpoint (app.py, summarize_document_sections).           *)
(***************************************************************************)
SummaryCacheExists == summary_file.st # "absent"

Respond200(status, is_partial, count) ==
    [code |-> 200, status |-> status, is_partial |-> is_partial, count |-> count]
Respond500 == [code |-> 500, status |-> "error", is_partial |-> FALSE, count |-> 0]

\* lines 200-211: complete only if the total-segments file exists and says so
PartialIsComplete(summaries, total_file) ==
    IF total_file.exists THEN Cardinality(summaries) >= total_file.value ELSE FALSE

\* lines 226-252: total_segments_file is assigned only at line 204, inside the
\* partial branch; unbound, line 245 raises and line 252 assumes completeness
CachedIsComplete(summaries, data, total_file_bound) ==
    IF total_file_bound THEN Cardinality(summaries) >= TotalSegments(data) ELSE TRUE

\* lines 195-218: partial=true and the summaries file exists
PartialBranch(w) ==
    /\ job[w].pc = "idle"
    /\ runs < MaxRuns
    /\ huridocs_file.st = "ok"
    /\ SummaryCacheExists
    /\ runs' = runs + 1
    /\ response' = [response EXCEPT ![w] =
          IF summary_file.st = "corrupt" THEN Respond500
          ELSE LET is_complete == PartialIsComplete(summary_file.map, total_segments_file)
               IN  Respond200(IF is_complete THEN "complete" ELSE "in_progress",
                              ~is_complete, Cardinality(summary_file.map))]
    /\ UNCHANGED <<standaloneVars, analyzeVars, huridocs_file, summary_file, total_segments_file, vector_stores, index_builds, gen_mode, job,
                   gen_changes, crashes, write_failures, last_ids, prev_ids>>

ServePartial(w) == PartialBranch(w) /\ UNCHANGED queryVars

\* lines 221-259: the file exists, partial=false, resume=false
CachedBranch(w) ==
    /\ job[w].pc = "idle"
    /\ runs < MaxRuns
    /\ huridocs_file.st = "ok"
    /\ SummaryCacheExists
    /\ runs' = runs + 1
    /\ LET bound == FALSE
       IN  /\ response' = [response EXCEPT ![w] =
                 IF summary_file.st = "corrupt" THEN Respond500
                 ELSE LET is_complete == CachedIsComplete(summary_file.map, doc, bound)
                      IN  Respond200(IF is_complete THEN "complete" ELSE "in_progress",
                                     ~is_complete, Cardinality(summary_file.map))]
           /\ total_segments_file' =
                 IF bound /\ summary_file.st = "ok"
                 THEN [exists |-> TRUE, value |-> TotalSegments(doc)]
                 ELSE total_segments_file
    /\ UNCHANGED <<standaloneVars, analyzeVars, huridocs_file, summary_file, vector_stores, index_builds, gen_mode, job,
                   gen_changes, crashes, write_failures, last_ids, prev_ids>>

ServeCached(w) == CachedBranch(w) /\ UNCHANGED queryVars

\* the request reaches line 267: not served by the two branches above
ReachesJob(return_partial, resume_generation) ==
    /\ ~(return_partial /\ SummaryCacheExists)
    /\ ~(SummaryCacheExists /\ ~return_partial /\ ~resume_generation)

\* lines 269-284: the answer when load_and_index_with_summaries reports failure
IndexFailureResponse ==
    IF summary_file.st = "ok" /\ summary_file.map # {}
    THEN [code |-> 200, status |-> "failed", is_partial |-> TRUE,
          count |-> Cardinality(summary_file.map)]
    ELSE Respond500

\* lines 267-284 with load_and_index (rag_handler.py, 144-164, 386-390)
\* failing to build the vector store
IndexFails(w, return_partial, resume_generation) ==
    /\ job[w].pc = "idle"
    /\ runs < MaxRuns
    /\ huridocs_file.st = "ok"
    /\ ReachesJob(return_partial, resume_generation)
    /\ ~vector_stores
    /\ runs' = runs + 1
    /\ response' = [response EXCEPT ![w] = IndexFailureResponse]
    /\ UNCHANGED <<standaloneVars, analyzeVars, queryVars, huridocs_file, summary_file, total_segments_file, vector_stores, index_builds, gen_mode, job,
                   gen_changes, crashes, write_failures, last_ids, prev_ids>>

\* lines 286-291: the job returned its map
JobResponse(summaries) == Respond200("complete", FALSE, Cardinality(summaries))

\* generate_section_summaries up to its loop (rag_handler.py, 175-285), and
\* the return of lines 267-269 with app.py 286-291 when nothing is to process
BeginJob(w, run, heap) ==
    LET existing_summaries == LoadExisting(summary_file)
        ex == Extraction(doc, heap, existing_summaries)
    IN  /\ prev_ids' = last_ids
        /\ last_ids' = [set |-> TRUE, ids |-> IdsOf(ExtractSegments(doc, heap))]
        /\ IF Len(ex.to_process) = 0
           THEN \* lines 267-269: nothing to process, the loaded map is returned
                /\ job' = [job EXCEPT ![w] =
                      [IdleJob EXCEPT !.existing_summaries = existing_summaries,
                                      !.text_segments = ex.text_segments,
                                      !.summaries = existing_summaries,
                                      !.run = run]]
                /\ response' = [response EXCEPT ![w] = JobResponse(existing_summaries)]
           ELSE /\ job' = [job EXCEPT ![w] =
                      [IdleJob EXCEPT !.pc = "attempt",
                                      !.existing_summaries = existing_summaries,
                                      !.text_segments = ex.text_segments,
                                      !.to_process = ex.to_process,
                                      !.summaries = existing_summaries,
                                      !.segments_total = Len(ex.to_process),
                                      !.pos = 1,
                                      !.run = run]]
                /\ response' = [response EXCEPT ![w] = NoResponse]

\* line 267 with load_and_index succeeding, then generate_section_summaries
\* up to its loop (rag_handler.py, 175-285)
JobBranch(w, return_partial, resume_generation, heap) ==
    /\ job[w].pc = "idle"
    /\ runs < MaxRuns
    /\ huridocs_file.st = "ok"
    /\ ReachesJob(return_partial, resume_generation)
    /\ runs' = runs + 1
    /\ vector_stores' = TRUE
    /\ index_builds' = IF vector_stores THEN index_builds ELSE index_builds + 1
    /\ BeginJob(w, runs + 1, heap)
    /\ UNCHANGED <<standaloneVars, analyzeVars, huridocs_file, summary_file, total_segments_file, gen_mode,
                   gen_changes, crashes, write_failures>>

StartJob(w, return_partial, resume_generation, heap) ==
    JobBranch(w, return_partial, resume_generation, heap) /\ UNCHANGED queryVars

(***************************************************************************)
(* The loop of generate_section_summaries (rag_handler.py, 297-375).       *)
(***************************************************************************)
\* one generation call and the handling of what it returns or raises
Attempt(w, wr) ==
    /\ job[w].pc = "attempt"
    /\ LET it == Iteration(job[w], gen_mode)
           j == it[1]
           saves == it[2]
       IN  /\ IF saves
              THEN /\ wr = "written" \/ write_failures < MaxWriteFailures
                   /\ summary_file' = save_intermediate_results(summary_file, j.summaries, wr)
                   /\ write_failures' = IF wr = "written" THEN write_failures
                                        ELSE write_failures + 1
                   /\ job' = [job EXCEPT ![w] =
                         [j EXCEPT !.offered = [set |-> TRUE, map |-> j.summaries],
                                   !.saved_ok = (wr = "written")]]
              ELSE /\ wr = "written"
                   /\ job' = [job EXCEPT ![w] = j]
                   /\ UNCHANGED <<summary_file, write_failures>>
    /\ UNCHANGED <<standaloneVars, analyzeVars, queryVars, huridocs_file, total_segments_file, vector_stores, index_builds, gen_mode, response, runs,
                   gen_changes, crashes, last_ids, prev_ids>>

\* line 343: time.sleep(delay) returns; the while condition is evaluated
Wake(w) ==
    /\ job[w].pc = "sleeping"
    /\ job' = [job EXCEPT ![w].pc = IF LoopGuard(job[w].retry_count) THEN "attempt"
                                    ELSE "next",
                          ![w].slept = @ + job[w].delay]
    /\ UNCHANGED <<standaloneVars, analyzeVars, queryVars, huridocs_file, summary_file, total_segments_file, vector_stores, index_builds, gen_mode,
                   response, runs, gen_changes, crashes, write_failures, last_ids, prev_ids>>

\* lines 367-369 and the for statement: on to the next segment
NextSegment(w) ==
    /\ job[w].pc = "next"
    /\ job[w].pos < Len(job[w].to_process)
    /\ job' = [job EXCEPT ![w].pos = @ + 1, ![w].retry_count = 0,
                          ![w].attempts = 0, ![w].outcome = "none",
                          ![w].slept = 0, ![w].last_error = "",
                          ![w].paused = IF InterSegmentDelayDue(job[w].processed_count,
                                                                job[w].segments_total)
                                        THEN InterSegmentDelay ELSE 0,
                          ![w].pc = IF LoopGuard(0) THEN "attempt" ELSE "next"]
    /\ UNCHANGED <<standaloneVars, analyzeVars, queryVars, huridocs_file, summary_file, total_segments_file, vector_stores, index_builds, gen_mode,
                   response, runs, gen_changes, crashes, write_failures, last_ids, prev_ids>>

\* lines 371-375 and app.py 286-291: the final save, the return, the response
FinishJob(w, wr) ==
    /\ job[w].pc = "next"
    /\ job[w].pos = Len(job[w].to_process)
    /\ wr = "written" \/ write_failures < MaxWriteFailures
    /\ summary_file' = save_intermediate_results(summary_file, job[w].summaries, wr)
    /\ write_failures' = IF wr = "written" THEN write_failures ELSE write_failures + 1
    /\ response' = [response EXCEPT ![w] = JobResponse(job[w].summaries)]
    /\ job' = [job EXCEPT ![w] = IdleJob]
    /\ UNCHANGED <<standaloneVars, analyzeVars, queryVars, huridocs_file, total_segments_file, vector_stores, index_builds, gen_mode, runs,
                   gen_changes, crashes, last_ids, prev_ids>>

(***************************************************************************)
(* The environment.                                                        *)
(***************************************************************************)
\* the process dies and is restarted: memory is lost, the files stay
Crash ==
    /\ crashes < MaxCrashes
    /\ \E w \in Workers : job[w].pc # "idle"
    /\ crashes' = crashes + 1
    /\ job' = [w \in Workers |-> IdleJob]
    /\ response' = [w \in Workers |-> NoResponse]
    /\ vector_stores' = FALSE
    /\ index_builds' = 0
    /\ UNCHANGED <<standaloneVars, analyzeVars, queryVars, huridocs_file, summary_file, total_segments_file, gen_mode, runs,
                   gen_changes, write_failures, last_ids, prev_ids>>

\* the generation collaborator starts to answer differently
GenChange(mode) ==
    /\ gen_changes < MaxGenChanges
    /\ \E w \in Workers : job[w].pc = "attempt"
    /\ mode # gen_mode
    /\ gen_mode' = mode
    /\ gen_changes' = gen_changes + 1
    /\ UNCHANGED <<standaloneVars, analyzeVars, queryVars, huridocs_file, summary_file, total_segments_file, vector_stores, index_builds, job, response,
                   runs, crashes, write_failures, last_ids, prev_ids>>

(***************************************************************************)
(* Spec: summarize requests served one at a time.                          *)
(***************************************************************************)

Next ==
    \/ ServePartial(1)
    \/ ServeCached(1)
    \/ \E p \in BOOLEAN, r \in BOOLEAN : IndexFails(1, p, r)
    \/ \E p \in BOOLEAN, r \in BOOLEAN, heap \in HeapLayouts : StartJob(1, p, r, heap)
    \/ \E wr \in WriteOutcomes : Attempt(1, wr)
    \/ Wake(1)
    \/ NextSegment(1)
    \/ \E wr \in WriteOutcomes : FinishJob(1, wr)
    \/ Crash
    \/ \E mode \in GenModes : GenChange(mode)

Spec == JobInit /\ [][Next]_vars

(***************************************************************************)
(* SpecLong: one uninterrupted job over the large document, every          *)
(* checkpoint write succeeding.                                            *)
(***************************************************************************)
LongInit ==
    /\ huridocs_file = [st |-> "ok", data |-> BigList]
    /\ gen_mode \in GenModes
    /\ write_failures = 0
    /\ StandaloneAtRest
    /\ SummarizeAtRest
    /\ AnalyzeAtRest
    /\ QueryAtRest
    /\ rag_handler = TRUE

LongNext ==
    \/ \E p \in BOOLEAN, r \in BOOLEAN : StartJob(1, p, r, 0)
    \/ Attempt(1, "written")
    \/ Wake(1)
    \/ NextSegment(1)
    \/ FinishJob(1, "written")
    \/ \E mode \in GenModes : GenChange(mode)

SpecLong == LongInit /\ [][LongNext]_vars

\* the job is a sequential loop in a thread that is not cancelled: each of its
\* steps, the return of time.sleep included, is eventually taken
SpecLongFair ==
    /\ LongInit
    /\ [][LongNext]_vars
    /\ WF_vars(Attempt(1, "written"))
    /\ WF_vars(Wake(1))
    /\ WF_vars(NextSegment(1))
    /\ WF_vars(FinishJob(1, "written"))

(***************************************************************************)
(* SpecScenarioB: the scenario document, every generation call and every   *)
(* checkpoint write succeeding, the process stopped at any point and the   *)
(* job resumed.                                                            *)
(***************************************************************************)
ScenarioBInit ==
    /\ huridocs_file = [st |-> "ok", data |-> ScenarioDoc]
    /\ gen_mode = "ok"
    /\ write_failures = 0
    /\ StandaloneAtRest
    /\ SummarizeAtRest
    /\ AnalyzeAtRest
    /\ QueryAtRest
    /\ rag_handler = TRUE

ScenarioBNext ==
    \/ \E p \in BOOLEAN, r \in BOOLEAN : StartJob(1, p, r, 0)
    \/ Attempt(1, "written")
    \/ NextSegment(1)
    \/ FinishJob(1, "written")
    \/ Crash

SpecScenarioB == ScenarioBInit /\ [][ScenarioBNext]_vars

(***************************************************************************)
(* The analyze endpoint (app.py, analyze_pdf, lines 59-141), for requests  *)
(* that carry the same PDF bytes: one hash, one cache entry, one file.     *)
(***************************************************************************)
\* the JSON documents the layout-analysis service may answer with
AnalysisResults == {SmallList, PagesTexts}

AnalyzeRespond(code, data, source) == [code |-> code, data |-> data, source |-> source]

\* variant: the memory map is never hit
MemoryHitNever(cache) == FALSE
\* line 80: if pdf_hash in analysis_cache
MemoryHit(cache) == cache.set
\* variant: whatever the file holds is served
DiskHitAnyFile(file) == file.st # "absent"
\* lines 85-96: the file exists and json.load succeeds
DiskHit(file) == file.st = "ok"
\* variant: the call is made again within the request
RetryAfterFailure == [IdleAnalyze EXCEPT !.pc = "calling"]
\* lines 121-135: the request ends with the error response
RequestAfterFailure == IdleAnalyze
\* variant: the result is not kept in the memory cache
CacheStoreSkipped(cache, analysis_result) == cache
\* lines 91, 116: analysis_cache[pdf_hash] = analysis_result
CacheStore(cache, analysis_result) == [set |-> TRUE, data |-> analysis_result]
\* lines 107-113: the write of the result file; an exception is swallowed
StoreResultFile(file, analysis_result, wr) ==
    IF wr = "written" THEN [st |-> "ok", data |-> analysis_result]
    ELSE IF wr = "partial" THEN [st |-> "corrupt", data |-> PlainDict]
    ELSE file

\* variant: a failed write ends the request
AfterStoreFatal(wr) == IF wr = "written" THEN "caching" ELSE "idle"
\* lines 111-115: after the write, failed or not, the request goes on
AfterStore(wr) == "caching"

NoteServed(s, data) == IF s.set THEN s ELSE [set |-> TRUE, data |-> data]

\* lines 75-99: the request arrives and the two cache tiers are looked up
AnalyzeReceive(w) ==
    /\ areq[w].pc = "idle"
    /\ analyze_requests < MaxAnalyzeRequests
    /\ analyze_requests' = analyze_requests + 1
    /\ IF MemoryHit(analysis_cache)
       THEN /\ aresponse' = [aresponse EXCEPT ![w] =
                                AnalyzeRespond(200, analysis_cache.data, "memory")]
            /\ served' = NoteServed(served, analysis_cache.data)
            /\ first_served' = NoteServed(first_served, analysis_cache.data)
            /\ UNCHANGED <<analysis_cache, areq>>
       ELSE IF DiskHit(huridocs_file)
       THEN /\ analysis_cache' = CacheStore(analysis_cache, huridocs_file.data)
            /\ aresponse' = [aresponse EXCEPT ![w] =
                                AnalyzeRespond(200, huridocs_file.data, "disk")]
            /\ served' = NoteServed(served, huridocs_file.data)
            /\ first_served' = NoteServed(first_served, huridocs_file.data)
            /\ UNCHANGED areq
       ELSE /\ areq' = [areq EXCEPT ![w].pc = "calling", ![w].disk = huridocs_file.st]
            /\ aresponse' = [aresponse EXCEPT ![w] = NoAnalyzeResponse]
            /\ UNCHANGED <<analysis_cache, served, first_served>>
    /\ UNCHANGED <<standaloneVars, huridocs_file, ext_calls, calls_after_served, restarts, write_failures,
                   queryVars, summary_file, total_segments_file, vector_stores, index_builds, gen_mode, job,
                   response, runs, gen_changes, crashes, last_ids, prev_ids>>

\* lines 100-104 and 121-139: the single requests.post and what it ends in
AnalyzeCall(w, kind, result) ==
    /\ areq[w].pc = "calling"
    /\ ext_calls' = ext_calls + 1
    /\ calls_after_served' = IF served.set THEN calls_after_served + 1
                             ELSE calls_after_served
    /\ IF kind = "ok"
       THEN /\ areq' = [areq EXCEPT ![w].pc = "storing", ![w].analysis_result = result]
            /\ UNCHANGED aresponse
       ELSE /\ result = PlainDict
            /\ areq' = [areq EXCEPT ![w] = RequestAfterFailure]
            /\ aresponse' = [aresponse EXCEPT ![w] =
                  AnalyzeRespond(IF kind = "timeout" THEN 504 ELSE 503, PlainDict, "none")]
    /\ UNCHANGED <<standaloneVars, huridocs_file, analysis_cache, served, first_served, analyze_requests,
                   restarts, write_failures,
                   queryVars, summary_file, total_segments_file, vector_stores, index_builds, gen_mode, job,
                   response, runs, gen_changes, crashes, last_ids, prev_ids>>

\* lines 106-113: the result is written to the file cache
AnalyzeStore(w, wr) ==
    /\ areq[w].pc = "storing"
    /\ wr = "written" \/ write_failures < MaxWriteFailures
    /\ write_failures' = IF wr = "written" THEN write_failures ELSE write_failures + 1
    /\ huridocs_file' = StoreResultFile(huridocs_file, areq[w].analysis_result, wr)
    /\ areq' = [areq EXCEPT ![w].pc = AfterStore(wr), ![w].stored = (wr = "written")]
    /\ UNCHANGED <<standaloneVars, analysis_cache, aresponse, ext_calls, served, first_served,
                   calls_after_served, analyze_requests, restarts,
                   queryVars, summary_file, total_segments_file, vector_stores, index_builds, gen_mode, job,
                   response, runs, gen_changes, crashes, last_ids, prev_ids>>

\* lines 115-119: the result is put in the memory cache and returned
AnalyzeCache(w) ==
    /\ areq[w].pc = "caching"
    /\ analysis_cache' = CacheStore(analysis_cache, areq[w].analysis_result)
    /\ aresponse' = [aresponse EXCEPT ![w] =
                        AnalyzeRespond(200, areq[w].analysis_result, "external")]
    /\ served' = NoteServed(served, areq[w].analysis_result)
    /\ first_served' = NoteServed(first_served, areq[w].analysis_result)
    /\ areq' = [areq EXCEPT ![w] = IdleAnalyze]
    /\ UNCHANGED <<standaloneVars, huridocs_file, ext_calls, calls_after_served, analyze_requests,
                   restarts, write_failures,
                   queryVars, summary_file, total_segments_file, vector_stores, index_builds, gen_mode, job,
                   response, runs, gen_changes, crashes, last_ids, prev_ids>>

\* the process is restarted: analysis_cache = {} (line 26), the files stay
Restart ==
    /\ restarts < MaxRestarts
    /\ restarts' = restarts + 1
    /\ analysis_cache' = NoAnalysis
    /\ areq' = [w \in Workers |-> IdleAnalyze]
    /\ aresponse' = [w \in Workers |-> NoAnalyzeResponse]
    /\ served' = NoAnalysis
    /\ calls_after_served' = 0
    /\ UNCHANGED <<standaloneVars, huridocs_file, ext_calls, first_served, analyze_requests, write_failures,
                   queryVars, summary_file, total_segments_file, vector_stores, index_builds, gen_mode, job,
                   response, runs, gen_changes, crashes, last_ids, prev_ids>>

(***************************************************************************)
(* SpecAnalyze: analyze requests for the same bytes, served one at a time. *)
(***************************************************************************)
AnalyzeInit ==
    /\ huridocs_file = [st |-> "absent", data |-> PlainDict]
    /\ gen_mode = "ok"
    /\ write_failures = 0
    /\ StandaloneAtRest
    /\ SummarizeAtRest
    /\ AnalyzeAtRest
    /\ QueryAtRest
    /\ rag_handler = TRUE

AnalyzeNext ==
    \/ AnalyzeReceive(1)
    \/ \E result \in AnalysisResults : AnalyzeCall(1, "ok", result)
    \/ \E kind \in {"timeout", "http_error"} : AnalyzeCall(1, kind, PlainDict)
    \/ \E wr \in WriteOutcomes : AnalyzeStore(1, wr)
    \/ AnalyzeCache(1)
    \/ Restart

SpecAnalyze == AnalyzeInit /\ [][AnalyzeNext]_vars

(***************************************************************************)
(* The chat endpoint (app.py, chat_with_document, lines 144-170) with      *)
(* DocumentRAG.query and load_and_index (rag_handler.py, 400-461 and       *)
(* 144-164), and the summarize requests that reach load_and_index          *)
(* (app.py, line 267). Requests are handled by concurrent threads.         *)
(***************************************************************************)
\* what the generation collaborator may return for a query
QueryOutputs == {"The document is a report.", "", "Empty Response"}
\* how many documents similarity_search may return
RetrievedCounts == {0, 1, TopK}
\* rag_handler.py:420
NoRelevantInformation ==
    "I couldn't find any relevant information in the document to answer that."

Respond404 == [code |-> 404, status |-> "error", is_partial |-> FALSE, count |-> 0]

\* the request thread returns: the HTTP code, the 'response' text, the number
\* of sources, whether the body is an {"error": ...} object
Answered(c, code, answer, sources, error) ==
    [c EXCEPT !.pc = "idle", !.code = code, !.answer = answer, !.sources = sources,
              !.error = error]

\* variant: an empty retrieval is not told apart
NothingRetrievedNever(retrieved_docs) == FALSE
\* line 418: if not retrieved_docs
NothingRetrieved(retrieved_docs) == retrieved_docs = 0

\* variant: the existence of the analysis file is not tested
AnalysisMissingNever(file) == FALSE
\* app.py 160, 188: if not os.path.exists(huridocs_json_file)
AnalysisMissing(file) == file.st = "absent"

\* where a request goes once the document is in vector_stores
AfterIndex(c) == IF c.kind = "chat" THEN "search" ELSE "enter_job"

chatFrame == <<standaloneVars, analyzeVars, huridocs_file, summary_file, total_segments_file, gen_mode,
               gen_changes, crashes, write_failures, rag_handler>>

\* app.py 149-164 and rag_handler.py 404: validation, then rag_handler.query
ChatReceive(w, has_query) ==
    /\ chat[w].pc = "idle"
    /\ job[w].pc = "idle"
    /\ chat_requests < MaxChatRequests
    /\ chat_requests' = chat_requests + 1
    /\ chat' = [chat EXCEPT ![w] =
          LET c == [IdleChat EXCEPT !.has_query = has_query]
          IN  IF ~has_query THEN Answered(c, 400, "", 0, TRUE)
              ELSE IF AnalysisMissing(huridocs_file) THEN Answered(c, 404, "", 0, TRUE)
              \* rag_handler is None: line 164 raises, line 170 answers
              ELSE IF ~rag_handler THEN Answered(c, 500, "", 0, TRUE)
              ELSE [c EXCEPT !.kind = "chat",
                             !.pc = IF vector_stores THEN "search" ELSE "index_check"]]
    /\ UNCHANGED <<chatFrame, vector_stores, index_builds, job, response, runs, last_ids,
                   prev_ids>>

\* app.py 180-267: a summarize request that is not served from the summaries
\* file reaches rag_handler.load_and_index_with_summaries
SummarizeReceive(w, return_partial, resume_generation) ==
    /\ chat[w].pc = "idle"
    /\ job[w].pc = "idle"
    /\ runs < MaxRuns
    /\ AnalysisMissing(huridocs_file) \/ ReachesJob(return_partial, resume_generation)
    /\ runs' = runs + 1
    /\ IF AnalysisMissing(huridocs_file)
       THEN /\ response' = [response EXCEPT ![w] = Respond404]
            /\ UNCHANGED chat
       \* rag_handler is None: line 267 raises, line 295 answers
       ELSE IF ~rag_handler
       THEN /\ response' = [response EXCEPT ![w] = Respond500]
            /\ UNCHANGED chat
       ELSE /\ response' = [response EXCEPT ![w] = NoResponse]
            /\ chat' = [chat EXCEPT ![w] =
                  [IdleChat EXCEPT !.kind = "summarize", !.run = runs + 1,
                                   !.return_partial = return_partial,
                                   !.resume_generation = resume_generation,
                                   !.branch = "job",
                                   !.pc = "index_check"]]
    /\ UNCHANGED <<chatFrame, chat_requests, vector_stores, index_builds, job, last_ids,
                   prev_ids>>

\* rag_handler.py 146-148: load_and_index looks the document up
IndexCheck(w) ==
    /\ chat[w].pc = "index_check"
    /\ chat' = [chat EXCEPT ![w].pc = IF vector_stores THEN AfterIndex(chat[w])
                                      ELSE "building"]
    /\ UNCHANGED <<chatFrame, chat_requests, vector_stores, index_builds, job, response,
                   runs, last_ids, prev_ids>>

\* rag_handler.py 150-164: the JSON is loaded, split and embedded and the
\* store is put in vector_stores; or one of these fails
IndexBuild(w, built) ==
    /\ chat[w].pc = "building"
    /\ built => huridocs_file.st = "ok"
    /\ IF built
       THEN /\ vector_stores' = TRUE
            /\ index_builds' = index_builds + 1
            /\ chat' = [chat EXCEPT ![w].pc = AfterIndex(chat[w])]
            /\ UNCHANGED response
       ELSE /\ UNCHANGED <<vector_stores, index_builds>>
            /\ IF chat[w].kind = "chat"
               THEN /\ chat' = [chat EXCEPT ![w] = Answered(@, 200, "", 0, TRUE)]
                    /\ UNCHANGED response
               ELSE /\ chat' = [chat EXCEPT ![w] = IdleChat]
                    /\ response' = [response EXCEPT ![w] = IndexFailureResponse]
    /\ UNCHANGED <<chatFrame, chat_requests, job, runs, last_ids, prev_ids>>

\* rag_handler.py 412-420: the similarity search
ChatSearch(w, retrieved_docs) ==
    /\ chat[w].pc = "search"
    /\ chat' = [chat EXCEPT ![w] =
          IF NothingRetrieved(retrieved_docs)
          THEN Answered([@ EXCEPT !.searched = TRUE, !.retrieved = retrieved_docs],
                        200, NoRelevantInformation, 0, FALSE)
          ELSE [@ EXCEPT !.searched = TRUE, !.retrieved = retrieved_docs,
                         !.pc = "generate"]]
    /\ UNCHANGED <<chatFrame, chat_requests, vector_stores, index_builds, job, response,
                   runs, last_ids, prev_ids>>

\* a variant that calls the generation collaborator again after a failure
GenerationFailedRetry(c) == c

\* rag_handler.py 459-461: an exception of chain.invoke is caught and returned as
\* {"error": ...}; app.py 164-166 sends that result with status 200
GenerationFailed(c) == Answered(c, 200, "", 0, TRUE)

\* rag_handler.py 422-461: the one generation call of the query
ChatGenerate(w, raised, output) ==
    /\ chat[w].pc = "generate"
    /\ chat' = [chat EXCEPT ![w] =
          IF raised
          THEN GenerationFailed([@ EXCEPT !.gen_calls = @ + 1])
          ELSE Answered([@ EXCEPT !.gen_calls = @ + 1], 200, output, @.retrieved, FALSE)]
    /\ UNCHANGED <<chatFrame, chat_requests, vector_stores, index_builds, job, response,
                   runs, last_ids, prev_ids>>

\* rag_handler.py 393: the summarize request goes on to generate_section_summaries
SummarizeEnter(w, heap) ==
    /\ chat[w].pc = "enter_job"
    /\ BeginJob(w, chat[w].run, heap)
    /\ chat' = [chat EXCEPT ![w] = IdleChat]
    /\ UNCHANGED <<chatFrame, chat_requests, vector_stores, index_builds, runs>>

ChatInit ==
    /\ huridocs_file \in {[st |-> "ok", data |-> SmallList],
                          [st |-> "absent", data |-> PlainDict]}
    /\ gen_mode = "ok"
    /\ write_failures = 0
    /\ StandaloneAtRest
    /\ SummarizeAtRest
    /\ AnalyzeAtRest
    /\ QueryAtRest
    /\ rag_handler \in BOOLEAN

ChatNext ==
    \E w \in Workers :
        \/ \E has_query \in BOOLEAN : ChatReceive(w, has_query)
        \/ \E p \in BOOLEAN, r \in BOOLEAN : SummarizeReceive(w, p, r)
        \/ IndexCheck(w)
        \/ \E built \in BOOLEAN : IndexBuild(w, built)
        \/ \E n \in RetrievedCounts : ChatSearch(w, n)
        \/ \E output \in QueryOutputs : ChatGenerate(w, FALSE, output)
        \/ ChatGenerate(w, TRUE, "")
        \/ SummarizeEnter(w, 0)
        \/ Attempt(w, "written")
        \/ NextSegment(w)
        \/ FinishJob(w, "written")

SpecChat == ChatInit /\ [][ChatNext]_vars

(***************************************************************************)
(* SpecAnalyzeConcurrent: analyze requests for the same bytes handled by   *)
(* concurrent threads, every write of the result file succeeding.          *)
(***************************************************************************)
AnalyzeConcurrentNext ==
    \/ \E w \in Workers :
        \/ AnalyzeReceive(w)
        \/ \E result \in AnalysisResults : AnalyzeCall(w, "ok", result)
        \/ AnalyzeStore(w, "written")
        \/ AnalyzeCache(w)
    \/ Restart

SpecAnalyzeConcurrent == AnalyzeInit /\ [][AnalyzeConcurrentNext]_vars

(***************************************************************************)
(* SpecFlags: summarize requests with their two flags, served one at a     *)
(* time, the index always built; the process may be stopped during a job.  *)
(***************************************************************************)
\* app.py 182-291: which branch serves a request with these flags
BranchOf(return_partial, resume_generation) ==
    IF return_partial /\ SummaryCacheExists THEN "partial"
    ELSE IF SummaryCacheExists /\ ~return_partial /\ ~resume_generation THEN "cached"
    ELSE "job"

\* the whole handler for a request with the given flags
Summarize(w, return_partial, resume_generation) ==
    /\ chat[w].pc = "idle"
    /\ chat' = [chat EXCEPT ![w] =
          [IdleChat EXCEPT !.kind = "summarize", !.run = runs + 1,
                           !.return_partial = return_partial,
                           !.resume_generation = resume_generation,
                           !.branch = BranchOf(return_partial, resume_generation)]]
    /\ UNCHANGED <<rag_handler, chat_requests>>
    /\ LET branch == BranchOf(return_partial, resume_generation)
       IN  \/ branch = "partial" /\ PartialBranch(w)
           \/ branch = "cached" /\ CachedBranch(w)
           \/ branch = "job" /\ JobBranch(w, return_partial, resume_generation, 0)

FlagsInit ==
    /\ huridocs_file \in {[st |-> "ok", data |-> SmallList],
                          [st |-> "ok", data |-> PagesItems]}
    /\ gen_mode = "ok"
    /\ write_failures = 0
    /\ StandaloneAtRest
    /\ SummarizeAtRest
    /\ AnalyzeAtRest
    /\ QueryAtRest
    /\ rag_handler = TRUE

FlagsNext ==
    \/ \E p \in BOOLEAN, r \in BOOLEAN : Summarize(1, p, r)
    \/ Attempt(1, "written")
    \/ NextSegment(1)
    \/ FinishJob(1, "written")
    \/ Crash

SpecFlags == FlagsInit /\ [][FlagsNext]_vars

(***************************************************************************)
(* SpecBackoff: extract_retry_delay applied, as at rag_handler.py line     *)
(* 338, to the text of an error of the generation collaborator.            *)
(***************************************************************************)
\* the parts the error texts are made of
BackoffLeads == {"", "Quota exceeded, please "}
BackoffPhrases == {"retry after", "Retry After", "wait", "retry in", "try again in"}
BackoffNumbers == {2, 20, 120}
BackoffUnits == {"s", " seconds", "m", " minutes", " sec", " hours", ""}

BackoffText(lead, phrase, n, unit) == lead \o phrase \o " " \o ToString(n) \o unit

BackoffTexts ==
    {BackoffText(lead, phrase, n, unit) :
        lead \in BackoffLeads, phrase \in BackoffPhrases, n \in BackoffNumbers,
        unit \in BackoffUnits}

\* line 338: delay = extract_retry_delay(error_msg)
ParseDelay(w) ==
    /\ job[w].pc = "idle"
    /\ job[w].last_error = ""
    /\ job' = [job EXCEPT ![w].last_error = gen_mode,
                          ![w].delay = extract_retry_delay(gen_mode)]
    /\ UNCHANGED <<standaloneVars, analyzeVars, queryVars, huridocs_file, summary_file, total_segments_file,
                   vector_stores, index_builds, gen_mode, response, runs, gen_changes,
                   crashes, write_failures, last_ids, prev_ids>>

BackoffInit ==
    /\ huridocs_file = [st |-> "ok", data |-> SmallList]
    /\ gen_mode \in BackoffTexts
    /\ write_failures = 0
    /\ StandaloneAtRest
    /\ SummarizeAtRest
    /\ AnalyzeAtRest
    /\ QueryAtRest
    /\ rag_handler = TRUE

BackoffNext == \E w \in Workers : ParseDelay(w)

SpecBackoff == BackoffInit /\ [][BackoffNext]_vars

(***************************************************************************)
(* SpecConcurrentJobs: summarize requests for the same document handled by *)
(* concurrent threads, every checkpoint write succeeding.                  *)
(***************************************************************************)
ConcurrentJobsInit ==
    /\ huridocs_file = [st |-> "ok", data |-> SmallList]
    /\ gen_mode \in GenModes
    /\ write_failures = 0
    /\ StandaloneAtRest
    /\ SummarizeAtRest
    /\ AnalyzeAtRest
    /\ QueryAtRest
    /\ rag_handler = TRUE

ConcurrentJobsNext ==
    \/ \E w \in Workers :
        \/ \E p \in BOOLEAN, r \in BOOLEAN : StartJob(w, p, r, 0)
        \/ Attempt(w, "written")
        \/ Wake(w)
        \/ NextSegment(w)
        \/ FinishJob(w, "written")
    \/ \E mode \in GenModes : GenChange(mode)

SpecConcurrentJobs == ConcurrentJobsInit /\ [][ConcurrentJobsNext]_vars

(***************************************************************************)
(* SpecUse: a document is analysed, with a write of the result file that   *)
(* may fail, and chat and summarize requests are made for its hash;        *)
(* requests are served one at a time.                                      *)
(***************************************************************************)
UseNext ==
    \/ AnalyzeReceive(1)
    \/ \E result \in AnalysisResults : AnalyzeCall(1, "ok", result)
    \/ \E wr \in WriteOutcomes : AnalyzeStore(1, wr)
    \/ AnalyzeCache(1)
    \/ \E has_query \in BOOLEAN : ChatReceive(1, has_query)
    \/ \E p \in BOOLEAN, r \in BOOLEAN : SummarizeReceive(1, p, r)
    \/ IndexCheck(1)
    \/ \E built \in BOOLEAN : IndexBuild(1, built)
    \/ \E n \in RetrievedCounts : ChatSearch(1, n)
    \/ \E output \in QueryOutputs : ChatGenerate(1, FALSE, output)
    \/ ChatGenerate(1, TRUE, "")
    \/ SummarizeEnter(1, 0)
    \/ Attempt(1, "written")
    \/ NextSegment(1)
    \/ FinishJob(1, "written")

SpecUse == AnalyzeInit /\ [][UseNext]_vars

(***************************************************************************)
(* SpecPersist: a document is analysed and then summarized, requests       *)
(* served one at a time, with writes of the result file and of the         *)
(* checkpoint that may fail.                                               *)
(***************************************************************************)
PersistInit ==
    /\ huridocs_file = [st |-> "absent", data |-> PlainDict]
    /\ gen_mode \in GenModes
    /\ write_failures = 0
    /\ StandaloneAtRest
    /\ SummarizeAtRest
    /\ AnalyzeAtRest
    /\ QueryAtRest
    /\ rag_handler = TRUE

PersistNext ==
    \/ AnalyzeReceive(1)
    \/ \E result \in AnalysisResults : AnalyzeCall(1, "ok", result)
    \/ \E wr \in WriteOutcomes : AnalyzeStore(1, wr)
    \/ AnalyzeCache(1)
    \/ \E p \in BOOLEAN, r \in BOOLEAN : StartJob(1, p, r, 0)
    \/ \E wr \in WriteOutcomes : Attempt(1, wr)
    \/ Wake(1)
    \/ NextSegment(1)
    \/ \E wr \in WriteOutcomes : FinishJob(1, wr)

SpecPersist == PersistInit /\ [][PersistNext]_vars

(***************************************************************************)
(* Properties.                                                             *)
(***************************************************************************)
Running(w) == job[w].pc # "idle"
FileKeys == Keys(summary_file.map)
\* the segments (by position in the document) that have an entry in a map
SegmentsOf(map) == {e.bbox : e \in map}
\* the segments the job extracts from a document
SegmentCount(data) == Len(Extraction(data, 0, {}).text_segments)

\* C1 (as stated): over any sequence of analyze requests with the same bytes
\* the layout-analysis service is invoked at most once, and every 200
\* response carries the same JSON.
C1_AtMostOnceEver ==
    /\ ext_calls <= 1
    /\ \A w \in Workers : aresponse[w].code = 200 =>
           first_served.set /\ aresponse[w].data = first_served.data

\* C1 (amended): within one process lifetime, once an analyze request has
\* been answered 200 the service is not invoked again for those bytes and
\* every 200 response carries the JSON of that first answer.
C1_OnceServedNoCall ==
    /\ calls_after_served = 0
    /\ \A w \in Workers : aresponse[w].code = 200 =>
           served.set /\ aresponse[w].data = served.data

\* a request answered from the memory cache after an earlier external analysis
C1_Witness ==
    \E w \in Workers :
        /\ aresponse[w].code = 200
        /\ aresponse[w].source = "memory"
        /\ ext_calls >= 1

\* C2: a rerun leaves the checkpointed entries unchanged and invokes the
\* generation collaborator only for segments that have no checkpointed entry.
C2_Resumability ==
    \A w \in Workers : Running(w) =>
        /\ job[w].existing_summaries \subseteq job[w].summaries
        /\ job[w].called \cap SegmentsOf(job[w].existing_summaries) = {}

\* C3: two extractions of the same analysis JSON assign the same ids.
C3_DeterministicIds == prev_ids.set => prev_ids.ids = last_ids.ids

\* C4: a summarize response says complete (status complete, is_partial
\* false) exactly when its map has at least as many entries as the document
\* has segments.
C4_CompletionFlag ==
    \A w \in Workers : response[w].code = 200 =>
        ((response[w].status = "complete" /\ ~response[w].is_partial)
            <=> response[w].count >= SegmentCount(doc))

\* C5: the key set of the persisted summary map never shrinks.
C5_MonotonicKeys == [][FileKeys \subseteq FileKeys']_vars

\* C6: with every checkpoint write succeeding, the entries in memory but not
\* in the checkpoint file number at most 10 plus the in-flight segment.
C6_UnflushedBound ==
    \A w \in Workers : (Running(w) /\ write_failures = 0) =>
        Cardinality(Keys(job[w].summaries) \ FileKeys) <= CheckpointInterval + 1

\* C7: at most 5 generation attempts are made for a segment; when the 5th
\* fails with a rate-limit error the failure marker is recorded under the
\* segment's id and the retry loop is left for the next segment.
C7_RetryBudget ==
    \A w \in Workers : Running(w) =>
        /\ job[w].attempts <= max_retries
        /\ job[w].retry_count >= max_retries =>
              /\ job[w].pc = "next"
              /\ \E e \in job[w].summaries :
                    /\ e.id = CurrentSegment(job[w]).id
                    /\ e.summary = RateLimitMarker

\* the segment before the current one was given up after 5 rate-limited
\* attempts and the job is working on the current one
C7_Witness ==
    \E w \in Workers :
        /\ Running(w)
        /\ job[w].pos >= 2
        /\ job[w].attempts >= 1
        /\ \E e \in job[w].summaries :
              /\ e.id = job[w].to_process[job[w].pos - 1].id
              /\ e.summary = RateLimitMarker

\* C8: after a generation error that is not rate-limit-classified the error
\* marker is recorded for the segment and the retry loop is left at once.
C8_FailForward ==
    \A w \in Workers : (Running(w) /\ job[w].outcome = "error") =>
        /\ job[w].pc = "next"
        /\ \E e \in job[w].summaries :
              /\ e.id = CurrentSegment(job[w]).id
              /\ \E m \in ErrorMessages :
                    ~RateLimitClassified[m] /\ e.summary = ErrorMarkerOf[m]

\* the segment before the current one holds an error marker and the current
\* one has been summarized
C8_Witness ==
    \E w \in Workers :
        /\ Running(w)
        /\ job[w].pos >= 2
        /\ job[w].outcome = "ok"
        /\ \E e \in job[w].summaries :
              /\ e.id = job[w].to_process[job[w].pos - 1].id
              /\ \E m \in ErrorMessages : e.summary = ErrorMarkerOf[m]

\* C9: a periodic checkpoint is written exactly when 10 segments have been
\* summarized successfully since the previous periodic checkpoint.
C9_PeriodicEvery10 ==
    \A w \in Workers : Running(w) =>
        /\ job[w].last_periodic.set => job[w].last_periodic.count = CheckpointInterval
        /\ job[w].ok_since_periodic < CheckpointInterval

\* C10: the job is in a backoff sleep only after offering its full current
\* map to the checkpoint file.
C10_CheckpointBeforeSleep ==
    \A w \in Workers : job[w].pc = "sleeping" =>
        /\ job[w].offered.set
        /\ job[w].offered.map = job[w].summaries
        /\ job[w].saved_ok => summary_file = [st |-> "ok", map |-> job[w].summaries]

\* a backoff sleep entered with new entries in the map, all of them on disk
C10_Witness ==
    \E w \in Workers :
        /\ job[w].pc = "sleeping"
        /\ job[w].saved_ok
        /\ job[w].summaries # job[w].existing_summaries
        /\ summary_file.map = job[w].summaries

\* C11: a summarize response says 'failed' only when no summary entry is
\* persisted for the document.
C11_FailedOnlyWithoutProgress ==
    \A w \in Workers : response[w].status = "failed" =>
        (summary_file.st # "ok" \/ summary_file.map = {})

\* C12: a job started on a checkpoint map that covers every extracted
\* segment calls the generation collaborator for no segment, offers nothing
\* to the checkpoint file and returns the loaded map.
C12_NoOpWhenCovered ==
    \A w \in Workers :
        (/\ job[w].run > 0
         /\ \A k \in 1..Len(job[w].text_segments) :
                job[w].text_segments[k].id \in Keys(job[w].existing_summaries)) =>
            /\ job[w].pc = "idle"
            /\ job[w].called = {}
            /\ ~job[w].offered.set
            /\ job[w].summaries = job[w].existing_summaries
            /\ (response[w].code = 200 /\ runs = job[w].run) =>
                  response[w] = JobResponse(job[w].existing_summaries)

\* a job was started on a complete map of a document with segments and
\* returned at once
C12_Witness ==
    \E w \in Workers :
        /\ job[w].pc = "idle"
        /\ job[w].run > 0
        /\ Len(job[w].text_segments) > 0
        /\ job[w].existing_summaries # {}
        /\ response[w] = JobResponse(job[w].existing_summaries)

\* C14 (scenario C): a segment whose generation fails twice with the
\* rate-limit message naming a 5-second delay and then succeeds has one
\* entry, the generated summary; its backoff sleeps add up to 10 seconds and
\* its retry count is 2.
C14_ScenarioC ==
    \A w \in Workers :
        (/\ Running(w)
         /\ job[w].outcome = "ok"
         /\ job[w].retry_count = 2
         /\ job[w].last_error = "429 Rate limit exceeded, please retry after 5 seconds") =>
            /\ job[w].attempts = 3
            /\ job[w].slept = 10
            /\ {e.summary : e \in {x \in job[w].summaries :
                                      x.id = CurrentSegment(job[w]).id}}
                   = {GeneratedSummary(job[w].run)}

\* the third call for a segment succeeded after two rate-limited ones
C14_Witness ==
    \E w \in Workers :
        /\ Running(w)
        /\ job[w].outcome = "ok"
        /\ job[w].retry_count = 2
        /\ job[w].attempts = 3
        /\ job[w].slept = 10

\* C13 (scenario B): with every generation call succeeding, a crash of the
\* first run after its 12th segment leaves exactly 10 entries in the
\* checkpoint file; a job resumed from 10 saved entries processes exactly
\* the other segments of the document, and when it ends the map and the
\* file hold an entry for every segment and the response says complete.
C13_ScenarioB ==
    [][\A w \in Workers :
         /\ (/\ crashes' = crashes + 1
             /\ job[w].existing_summaries = {}
             /\ job[w].processed_count = 12) =>
                Cardinality(FileKeys') = 10
         /\ (Running(w) /\ Cardinality(job[w].existing_summaries) = 10) =>
                /\ job[w].segments_total = ScenarioSegments - 10
                /\ job[w].called \cap SegmentsOf(job[w].existing_summaries) = {}
         /\ (/\ Cardinality(job[w].existing_summaries) = 10
             /\ job[w].pc = "next"
             /\ job'[w].pc = "idle"
             /\ crashes' = crashes) =>
                /\ job[w].processed_count = ScenarioSegments - 10
                /\ Cardinality(FileKeys') = ScenarioSegments
                /\ response'[w] = Respond200("complete", FALSE, ScenarioSegments)
      ]_vars

\* the job resumed after the crash from 10 saved entries has processed the
\* other segments
C13_Witness ==
    \E w \in Workers :
        /\ crashes = 1
        /\ Running(w)
        /\ Cardinality(job[w].existing_summaries) = 10
        /\ job[w].pc = "next"
        /\ job[w].pos = Len(job[w].to_process)
        /\ Cardinality(job[w].summaries) = ScenarioSegments

\* C19: a request whose external call timed out is answered 504 after that
\* one call, and neither the memory cache nor the result file has changed.
C19_TimeoutCachesNothing ==
    [][\A w \in Workers :
         (areq[w].pc = "calling" /\ aresponse'[w].code = 504) =>
            /\ ext_calls' = ext_calls + 1
            /\ areq'[w].pc = "idle"
            /\ analysis_cache' = analysis_cache
            /\ huridocs_file' = huridocs_file
      ]_vars

\* a request was answered 504 after its external call
C19_Witness ==
    \E w \in Workers :
        /\ aresponse[w].code = 504
        /\ areq[w].pc = "idle"
        /\ ext_calls >= 1

\* C20: a request that finds an unparseable result file goes on to the
\* external service, writes the fresh result over the file, stores it in
\* the memory cache and returns it; no 200 response carries anything but a
\* result of the service.
C20_CorruptEntryIsMiss ==
    [][\A w \in Workers :
         /\ aresponse'[w].code = 200 => aresponse'[w].data \in AnalysisResults
         /\ areq'[w].disk = "corrupt" => areq'[w].pc \in {"calling", "storing", "caching"}
         /\ (areq[w].disk = "corrupt" /\ areq[w].pc = "caching" /\ restarts' = restarts) =>
               /\ aresponse'[w] = AnalyzeRespond(200, areq[w].analysis_result, "external")
               /\ analysis_cache' = [set |-> TRUE, data |-> areq[w].analysis_result]
               /\ areq[w].stored =>
                     huridocs_file' = [st |-> "ok", data |-> areq[w].analysis_result]
      ]_vars

\* a request that found the file unparseable has written the fresh result
\* over it
C20_Witness ==
    \E w \in Workers :
        /\ areq[w].disk = "corrupt"
        /\ areq[w].pc = "caching"
        /\ areq[w].stored
        /\ huridocs_file = [st |-> "ok", data |-> areq[w].analysis_result]


\* C15: a chat request or a job-starting summarize request made while the
\* rag handler is disabled (its construction failed at boot) is answered with
\* 503. Codes 400 and 404 come from the validation that precedes the handler.
C15_DisabledAnswers503 ==
    ~rag_handler =>
        \A w \in Workers :
            /\ chat[w].code \notin {0, 400, 404} => chat[w].code = 503
            /\ response[w].code \notin {0, 404} => response[w].code = 503

\* C16: in one process the vector index of the document is built at most
\* once, whatever the interleaving of the query and summarize requests.
C16_AtMostOneBuild == index_builds <= 1

\* C17: a query whose similarity search retrieved nothing is answered with the
\* canned 'no relevant information' response and no sources, is not an error,
\* and made no generation call.
C17_EmptyRetrievalIsCanned ==
    \A w \in Workers :
        (chat[w].searched /\ chat[w].retrieved = 0) =>
            /\ chat[w].pc = "idle"
            /\ chat[w].code = 200
            /\ chat[w].answer = NoRelevantInformation
            /\ chat[w].sources = 0
            /\ ~chat[w].error
            /\ chat[w].gen_calls = 0

C17_Witness ==
    \E w \in Workers :
        /\ chat[w].searched
        /\ chat[w].retrieved = 0
        /\ chat[w].code = 200
        /\ chat[w].answer = NoRelevantInformation

\* the outputs rag_service.py (lines 210-213) treats as no answer
DegenerateOutputs == {"", "Empty Response"}

\* C18: a query whose generation output was empty or the degenerate
\* placeholder does not return that output as its response.
C18_DegenerateOutputNotReturned ==
    \A w \in Workers :
        (chat[w].pc = "idle" /\ chat[w].gen_calls >= 1 /\ ~chat[w].error) =>
            chat[w].answer \notin DegenerateOutputs

\* C21: a write of the analysis result file or of the summaries checkpoint
\* that fails is swallowed. The analyze request goes on, puts its result in
\* the memory cache and answers 200 with it; the summarization job goes on
\* with its map intact and the request answers 200 with the full map, an
\* entry for every segment of the document.
C21_PersistFailureSwallowed ==
    [][ /\ (areq[1].pc = "storing" /\ write_failures' > write_failures) =>
              /\ areq'[1].pc = "caching"
              /\ areq'[1].analysis_result = areq[1].analysis_result
        /\ (areq[1].pc = "caching" /\ ~areq[1].stored /\ areq'[1].pc = "idle") =>
              /\ aresponse'[1] = AnalyzeRespond(200, areq[1].analysis_result, "external")
              /\ analysis_cache' = [set |-> TRUE, data |-> areq[1].analysis_result]
        /\ (job[1].pc = "attempt" /\ write_failures' > write_failures) =>
              /\ job'[1].pc \in {"sleeping", "attempt", "next"}
              /\ Keys(job[1].summaries) \subseteq Keys(job'[1].summaries)
        /\ (job[1].pc = "next" /\ job'[1].pc = "idle" /\ write_failures' > 0) =>
              /\ response'[1] = Respond200("complete", FALSE, Cardinality(job[1].summaries))
              /\ \A k \in 1..Len(job[1].text_segments) :
                    job[1].text_segments[k].id \in Keys(job[1].summaries)
      ]_vars

\* a job whose final save failed has answered with its map, after an analyze
\* request has answered with its result
C21_Witness ==
    /\ write_failures > 0
    /\ summary_file.st # "ok"
    /\ response[1].code = 200
    /\ response[1].status = "complete"
    /\ response[1].count > 0
    /\ aresponse[1].code = 200

\* C22: an analysis result is immutable once written. Once the result file
\* holds a result it holds that result for ever, and once a result has been
\* served for the hash every later 200 response carries that same result.
C22_ImmutableOnceWritten ==
    [][ /\ huridocs_file.st = "ok" => huridocs_file' = huridocs_file
        /\ \A w \in Workers :
              (first_served.set /\ aresponse'[w].code = 200) =>
                  aresponse'[w].data = first_served.data
      ]_vars

\* C23: the two flags of a summarize request are independent. A request with
\* resume=true runs the job whatever the value of partial, and a request with
\* partial=true is answered from the summaries file when that file exists.
C23_FlagsIndependent ==
    \A w \in Workers :
        chat[w].kind = "summarize" =>
            /\ chat[w].resume_generation => chat[w].branch = "job"
            /\ chat[w].branch = "partial" => chat[w].return_partial

\* C24: between every two consecutive segments of a run the fixed
\* inter-segment delay is slept, whatever happened to the earlier segment.
C24_DelayBetweenSegments ==
    \A w \in Workers :
        (job[w].pc # "idle" /\ job[w].pos > 1) => job[w].paused = InterSegmentDelay

\* C25: once summaries of the document have been generated and served, the
\* total-segments file exists and holds the document's segment count.
C25_TotalSegmentsFileWritten ==
    (\E w \in Workers : /\ response[w].code = 200
                        /\ response[w].status \in {"complete", "in_progress"}
                        /\ response[w].count > 0) =>
        /\ total_segments_file.exists
        /\ total_segments_file.value = TotalSegments(doc)

\* the blocks of a document the extraction looks at, each with its text
CandidateBlocks(data) ==
    IF data.shape = "list"
    THEN {[bbox |-> data.items[i].bbox, text |-> data.items[i].text] :
            i \in {k \in 1..Len(data.items) : data.items[k].text # Absent}}
    ELSE UNION { LET page == data.pages[p]
                 IN  IF page.kind = "texts"
                     THEN {[bbox |-> page.blocks[b].bbox, text |-> page.blocks[b].text] :
                             b \in {k \in 1..Len(page.blocks) : page.blocks[k].text # Absent}}
                     ELSE {[bbox |-> page.blocks[b].bbox,
                            text |-> IF page.blocks[b].content = Absent THEN ""
                                     ELSE page.blocks[b].content] :
                             b \in {k \in 1..Len(page.blocks) : page.blocks[k].type = "text"}}
                 : p \in 1..Len(data.pages) }

\* C26: the extraction keeps exactly the segments whose trimmed text has 10
\* characters or more, in the flat-list shape and in the pages shape.
C26_KeepsTenOrMore ==
    \A w \in Workers :
        (job[w].run > 0 /\ doc.shape \in {"list", "pages"}) =>
            {job[w].text_segments[k].bbox : k \in 1..Len(job[w].text_segments)}
                = {c.bbox : c \in {x \in CandidateBlocks(doc) : Len(Strip(x.text)) >= 10}}

\* C27 (as stated): an error text containing '<n> seconds' yields n, one
\* containing '<n> minutes' yields 60*n.
C27_AnyTextWithUnit ==
    \A w \in Workers : \A lead \in BackoffLeads, phrase \in BackoffPhrases,
                          n \in BackoffNumbers :
        /\ job[w].last_error = BackoffText(lead, phrase, n, " seconds") => job[w].delay = n
        /\ job[w].last_error = BackoffText(lead, phrase, n, " minutes") => job[w].delay = 60 * n

\* C27 (amended): an error text in which 'retry after', 'wait' or 'retry in'
\* (in any letter case) is followed by a space, a number n and 's' or
\* ' seconds' yields n; one in which it is followed by n and 'm' or
\* ' minutes' yields 60*n; a text with neither yields the default 30.
\* 'retry after 20s' gives 20 and 'wait 2 minutes' gives 120.
C27_BackoffParsing ==
    \A w \in Workers :
        /\ \A lead \in BackoffLeads, phrase \in BackoffPhrases, n \in BackoffNumbers,
              unit \in BackoffUnits :
              job[w].last_error = BackoffText(lead, phrase, n, unit) =>
                  job[w].delay =
                      IF Lower(phrase) \in RetryPrefixes /\ unit \in {"s", " seconds"} THEN n
                      ELSE IF Lower(phrase) \in RetryPrefixes /\ unit \in {"m", " minutes"}
                      THEN 60 * n
                      ELSE DefaultRetryDelay
        /\ job[w].last_error = "retry after 20s" => job[w].delay = 20
        /\ job[w].last_error = "wait 2 minutes" => job[w].delay = 120

C27_Witness ==
    /\ job[1].last_error = "wait 2 minutes"
    /\ job[1].delay = 120
    /\ job[2].last_error = "wait 2 minutes"

\* C28: concurrent summarization runs of one document are not excluded, and
\* a checkpoint write puts the writer's own map in place of whatever the
\* file held, entries of the other run included.
C28_WriteReplacesFile ==
    [][ summary_file' # summary_file =>
          \E w \in Workers :
              \/ job'[w].pc # "idle" /\ summary_file' = [st |-> "ok", map |-> job'[w].summaries]
              \/ job[w].pc = "next" /\ job'[w].pc = "idle"
                 /\ summary_file' = [st |-> "ok", map |-> job[w].summaries]
      ]_vars

\* a run that started while the other was running has written its map over
\* the file the other left complete: entries the other run served and
\* persisted are no longer in the file
C28_Witness ==
    \E w, v \in Workers :
        /\ w # v
        /\ response[w].code = 200
        /\ response[w].status = "complete"
        /\ job[v].pc # "idle"
        /\ job[v].offered.set /\ job[v].saved_ok
        /\ summary_file.st = "ok"
        /\ Cardinality(summary_file.map) < response[w].count

\* C29: while no analysis exists for the hash, a chat request that carries a
\* query and a summarize request are answered 404; no index is built, no
\* similarity search and no generation call is made, no job is started and
\* no file is written.
C29_NoAnalysisIs404 ==
    huridocs_file.st = "absent" =>
        /\ \A w \in Workers :
              /\ (chat[w].has_query /\ chat[w].code # 0) => chat[w].code = 404
              /\ response[w].code # 0 => response[w] = Respond404
              /\ chat[w].pc = "idle"
              /\ job[w] = IdleJob
              /\ ~chat[w].searched
              /\ chat[w].gen_calls = 0
        /\ index_builds = 0
        /\ ~vector_stores
        /\ summary_file = NoFile
        /\ ~total_segments_file.exists

C29_Witness ==
    /\ huridocs_file.st = "absent"
    /\ \E w, v \in Workers :
          /\ chat[w].has_query
          /\ chat[w].code = 404
          /\ response[v].code = 404

\* C30: after a restart that left the result file intact, the next analyze
\* request is answered from the file without a call of the service and puts
\* the result back in the memory map; a request that finds the result in the
\* memory map is answered from it, again without a call.
C30_DiskHitRepopulatesMemory ==
    [][ analyze_requests' = analyze_requests + 1 =>
          /\ (restarts > 0 /\ ~analysis_cache.set /\ huridocs_file.st = "ok") =>
                /\ aresponse'[1] = AnalyzeRespond(200, huridocs_file.data, "disk")
                /\ analysis_cache' = [set |-> TRUE, data |-> huridocs_file.data]
                /\ areq'[1].pc = "idle"
                /\ ext_calls' = ext_calls
          /\ analysis_cache.set =>
                /\ aresponse'[1] = AnalyzeRespond(200, analysis_cache.data, "memory")
                /\ areq'[1].pc = "idle"
                /\ ext_calls' = ext_calls
      ]_vars

\* a request after the restart was answered from the file an earlier
\* analysis had written
C30_Witness ==
    /\ restarts > 0
    /\ ext_calls = 1
    /\ aresponse[1].code = 200
    /\ aresponse[1].source = "disk"
    /\ analysis_cache = [set |-> TRUE, data |-> aresponse[1].data]

\* C31: a run over N segments to process makes at most 5*N generation calls
\* and always terminates, whatever the generation collaborator answers.
C31_TerminatesWithinBudget ==
    /\ [](\A w \in Workers :
            job[w].processed_count <= max_retries * job[w].segments_total)
    /\ \A w \in Workers : (job[w].pc # "idle") ~> (job[w].pc = "idle")

\* a run at its end in which every segment used all five calls
C31_Witness ==
    /\ job[1].pc = "next"
    /\ job[1].pos = Len(job[1].to_process)
    /\ job[1].segments_total = NumSegments
    /\ job[1].processed_count = max_retries * job[1].segments_total

\* C32: the reported status never regresses. Once a summarize request has
\* answered 'complete', every later summarize request for the document, with
\* any flags, answers 'complete' as well.
C32_CompleteIsFinal ==
    [][ (runs' = runs + 1 /\ response[1].status = "complete" /\ response'[1].code # 0) =>
            response'[1].status = "complete" ]_vars

\* C33: a run that returns after its loop returns a map with an entry for
\* every extracted segment id and with every entry of the loaded checkpoint,
\* and when its final write succeeds the checkpoint file holds exactly that
\* map. A run with nothing to process returns the loaded map, which covers
\* every extracted segment id.
C33_ReturnedMapIsFull ==
    [][ \A w \in Workers :
          /\ (job[w].pc = "next" /\ job'[w].pc = "idle" /\ crashes' = crashes) =>
                /\ \A k \in 1..Len(job[w].text_segments) :
                      job[w].text_segments[k].id \in Keys(job[w].summaries)
                /\ job[w].existing_summaries \subseteq job[w].summaries
                /\ response'[w] = JobResponse(job[w].summaries)
                /\ write_failures' = write_failures =>
                      summary_file' = [st |-> "ok", map |-> job[w].summaries]
          /\ (job[w].pc = "idle" /\ runs' = runs + 1 /\ job'[w].pc = "idle"
                /\ job'[w].run = runs') =>
                /\ \A k \in 1..Len(job'[w].text_segments) :
                      job'[w].text_segments[k].id \in Keys(job'[w].summaries)
                /\ job'[w].summaries = job'[w].existing_summaries
                /\ response'[w] = JobResponse(job'[w].summaries)
      ]_vars

\* a second run has returned: the file holds the map it reported, with
\* entries of the first run and entries of its own
C33_Witness ==
    /\ runs = 2
    /\ write_failures = 0
    /\ job[1] = IdleJob
    /\ response[1].code = 200
    /\ response[1].status = "complete"
    /\ summary_file.st = "ok"
    /\ Cardinality(summary_file.map) = response[1].count
    /\ \E e \in summary_file.map : e.summary = GeneratedSummary(1)
    /\ \E e \in summary_file.map : e.summary = GeneratedSummary(2)

\* C34: a run calls the generation collaborator only for segments whose id is
\* absent from the checkpoint map it loaded, and every entry of the loaded
\* map stays in its map unchanged.
C34_OnlyAbsentIdsProcessed ==
    \A w \in Workers :
        Running(w) =>
            /\ \A k \in 1..Len(job[w].to_process) :
                  job[w].to_process[k].id \notin Keys(job[w].existing_summaries)
            /\ job[w].called \subseteq
                  {job[w].to_process[k].bbox : k \in 1..job[w].pos}
            /\ job[w].existing_summaries \subseteq job[w].summaries

\* a resumed run has made calls
C34_Witness ==
    \E w \in Workers :
        /\ Running(w)
        /\ job[w].existing_summaries # {}
        /\ job[w].called # {}
        /\ Len(job[w].text_segments) > Len(job[w].to_process)

\* C35: once analyze has answered 200 for the hash in this process, a chat
\* or summarize request for the hash is not answered 404.
C35_AnalysedIsUsable ==
    [][ served.set =>
          /\ chat_requests' = chat_requests + 1 => chat'[1].code # 404
          /\ runs' = runs + 1 => response'[1].code # 404
      ]_vars

\* C36: concurrent analyze requests with the same bytes cause at most one
\* call of the layout-analysis service, and once they are done the memory
\* map and the result file hold the same result.
C36_SingleFlightAnalyze ==
    restarts = 0 =>
        /\ ext_calls <= 1
        /\ (/\ \A w \in Workers : areq[w].pc = "idle"
            /\ analysis_cache.set
            /\ huridocs_file.st = "ok") => analysis_cache.data = huridocs_file.data

\* C37: a summarize request whose vector index could not be built still goes
\* on to the summarization job.
C37_JobRunsWithoutIndex ==
    [][ \A w \in Workers :
          (/\ chat[w].kind = "summarize"
           /\ chat[w].pc = "building"
           /\ chat'[w].pc # "building"
           /\ index_builds' = index_builds) =>
              chat'[w].pc = "enter_job"
      ]_vars

\* C38: a query that retrieved at least one segment invokes the generation
\* collaborator exactly once, never again; when that call fails the request is
\* answered with an error result (status 200, not the 500 of a raised
\* exception), and the generation step leaves the document's index handle as
\* it was.
C38_GenerateOnceNoRetry ==
    /\ [](\A w \in Workers :
            (chat[w].kind = "chat" /\ chat[w].retrieved > 0) =>
                /\ chat[w].gen_calls <= 1
                /\ (chat[w].pc = "idle" => chat[w].gen_calls = 1)
                /\ (chat[w].pc = "idle" /\ chat[w].error) =>
                       (chat[w].code = 200 /\ chat[w].answer = "" /\ chat[w].sources = 0))
    /\ [][ \A w \in Workers :
             chat'[w].gen_calls > chat[w].gen_calls =>
                 /\ vector_stores' = vector_stores
                 /\ index_builds' = index_builds
                 /\ rag_handler' = rag_handler
         ]_vars

C38_Witness ==
    \E w \in Workers :
        /\ chat[w].kind = "chat"
        /\ chat[w].pc = "idle"
        /\ chat[w].retrieved > 0
        /\ chat[w].gen_calls = 1
        /\ chat[w].error
        /\ chat[w].code = 200
        /\ vector_stores

(***************************************************************************)
(* SpecStandalone: requests to the standalone RAG API of main.py.          *)
(***************************************************************************)
MaxApiRequests == 4
MaxApiRestarts == 1

NoDocumentsIndexed == "No documents have been indexed yet"

\* main.py 79, 122-123: every exception raised in the try block of a handler,
\* an HTTPException included, is answered with status 500 and its text
Caught(detail) == [code |-> 500, detail |-> detail]

\* main.py 109-123: the response of query_documents
QueryResult(state, outcome) ==
    IF ~state.has_index THEN Caught(NoDocumentsIndexed)
    ELSE IF state.index = "None"
         THEN Caught("'NoneType' object has no attribute 'as_query_engine'")
    ELSE IF outcome = "raised" THEN Caught("query engine error")
    ELSE [code |-> 200, detail |-> state.index]

\* items: the number of objects in the body of a process-pdf-content request
ApiCall(endpoint, items, result) ==
    [api EXCEPT !.endpoint = endpoint, !.items = items,
                !.code = result.code, !.detail = result.detail,
                !.index_seen = app_state.index, !.requests = @ + 1]

\* main.py 56-79: Document is the request model of line 27, which requires
\* content, so line 66 raises before an index is built or stored
ProcessPdfContent(items) ==
    /\ api.requests < MaxApiRequests
    /\ api' = ApiCall("process-pdf-content", items, Caught("validation error for Document: content field required"))
    /\ UNCHANGED <<storage_dir, app_state>>
    /\ UNCHANGED <<analyzeVars, queryVars, index_builds, huridocs_file, summary_file,
                   total_segments_file, vector_stores, gen_mode, job, response, runs,
                   gen_changes, crashes, write_failures, last_ids, prev_ids>>

\* main.py 108-123
QueryDocuments(outcome) ==
    /\ api.requests < MaxApiRequests
    /\ api' = ApiCall("query", 0, QueryResult(app_state, outcome))
    /\ UNCHANGED <<storage_dir, app_state>>
    /\ UNCHANGED <<analyzeVars, queryVars, index_builds, huridocs_file, summary_file,
                   total_segments_file, vector_stores, gen_mode, job, response, runs,
                   gen_changes, crashes, write_failures, last_ids, prev_ids>>

\* main.py 54, 125-126: the process is started again
StandaloneRestart ==
    /\ api.restarts < MaxApiRestarts
    /\ app_state' = Startup(storage_dir)
    /\ api' = [api EXCEPT !.restarts = @ + 1]
    /\ UNCHANGED storage_dir
    /\ UNCHANGED <<analyzeVars, queryVars, index_builds, huridocs_file, summary_file,
                   total_segments_file, vector_stores, gen_mode, job, response, runs,
                   gen_changes, crashes, write_failures, last_ids, prev_ids>>

StandaloneInit ==
    /\ huridocs_file = [st |-> "absent", data |-> PlainDict]
    /\ gen_mode = "ok"
    /\ write_failures = 0
    /\ SummarizeAtRest
    /\ AnalyzeAtRest
    /\ QueryAtRest
    /\ rag_handler = TRUE
    /\ storage_dir \in {"absent", "corrupt"} \cup StoredIndexes
    /\ app_state = Startup(storage_dir)
    /\ api = NoApiCall

StandaloneNext ==
    \/ \E items \in {0, 1, 2} : ProcessPdfContent(items)
    \/ \E outcome \in {"ok", "raised"} : QueryDocuments(outcome)
    \/ StandaloneRestart

SpecStandalone == StandaloneInit /\ [][StandaloneNext]_vars

\* C39: a /query request that finds no index in the standalone API (none
\* loaded at startup, none built since) is answered with status 400 and
\* "No documents have been indexed yet".
C39_QueryWithoutIndexIs400 ==
    (api.endpoint = "query" /\ api.index_seen = "None") =>
        (api.code = 400 /\ api.detail = NoDocumentsIndexed)

====
